---- MODULE Spec2Model ----
(***************************************************************************)
(* Model of src/light_optimizer.py: the Streamlit script main() and the    *)
(* functions it calls (load_daylight_data, evaluate_brightness,            *)
(* calculate_energy_kwh, calculate_cost, get_nearest_time_brightness,      *)
(* call_groq_scheduler).                                                   *)
(*                                                                         *)
(* Representation choices                                                  *)
(*  - a text cell (a time such as "09:00") is a sequence of one-character  *)
(*    strings, so that parsing it is computed; an empty cell (NaN) is <<>>.*)
(*  - Python's None / Optional is a sequence of length 0 or 1.             *)
(*  - a DataFrame is [columns, index, data]: the column names in order,    *)
(*    the index labels in row order, and per row the tuple of its cells,   *)
(*    aligned with columns.                                                *)
(*  - energy and cost are decimals with four places, held as integers in   *)
(*    units of 0.0001 (round(x, 4) is RoundDiv to that unit).              *)
(*  - a JSON value is a record [t |-> type, <payload field of that type>]. *)
(***************************************************************************)
EXTENDS Integers, Sequences, FiniteSets, TLC

VARIABLES
    pc,               \* position of main() in the current script run
    run,              \* number of the current script run (Streamlit reruns main)
    uploaded_file,    \* Optional CSV: <<>> or <<[header, rows]>>
    groq_api_key,     \* text of the key input, "" when empty
    df,               \* main's DataFrame
    now,              \* datetime.now() truncated to the minute, as minutes of the day
    time_match,       \* Optional time text returned by the matcher
    brightness_match, \* Optional brightness returned by the matcher
    status,           \* which "Current Lighting Status" message was shown
    metrics,          \* the three aggregate metrics shown
    overview,         \* the table handed to st.dataframe
    response,         \* Optional HTTP response received by requests.post
    schedule,         \* Optional value returned by call_groq_scheduler
    raised,           \* exception that ended the run, "" when none
    httpRequests,     \* the HTTP requests sent in the current run, in order
    steps,            \* the pipeline steps performed in the current run
    enrichedLog       \* per run that enriched: the input file and the enriched table

vars == <<pc, run, uploaded_file, groq_api_key, df, now, time_match,
          brightness_match, status, metrics, overview, response, schedule,
          raised, httpRequests, steps, enrichedLog>>

\* ---------------------------------------------------------------- bounds

MaxRows == 2         \* rows of an uploaded CSV in the script model
MaxRuns == 2         \* script runs (the first run and its reruns)
MaxMatchRows == 3    \* rows of a table handed to the matcher on its own
LuxSpan == 520       \* evaluate_brightness is applied to every lux in -LuxSpan..LuxSpan

\* ------------------------------------------------------------ basic values

None == <<>>
Some(v) == <<v>>

NaT == -1
EmptyFrame == [columns |-> <<>>, index |-> <<>>, data |-> <<>>]

Digits == {"0", "1", "2", "3", "4", "5", "6", "7", "8", "9"}

DigitValue(c) ==
    CASE c = "0" -> 0 [] c = "1" -> 1 [] c = "2" -> 2 [] c = "3" -> 3
      [] c = "4" -> 4 [] c = "5" -> 5 [] c = "6" -> 6 [] c = "7" -> 7
      [] c = "8" -> 8 [] c = "9" -> 9

\* The value of a field of one or two digits, -1 when it is not such a field.
FieldValue(s) ==
    IF Len(s) \notin {1, 2} \/ \E i \in 1..Len(s) : s[i] \notin Digits
    THEN -1
    ELSE IF Len(s) = 1 THEN DigitValue(s[1])
         ELSE 10 * DigitValue(s[1]) + DigitValue(s[2])

\* pd.to_datetime(text, format="%H:%M", errors='coerce').dt.time, as minutes of
\* the day: the whole text must be <hour 0..23>:<minute 0..59>, each of one or
\* two digits; anything else (an empty cell included) is coerced to NaT.
ParseTime(s) ==
    LET colons == {i \in 1..Len(s) : s[i] = ":"}
    IN  IF Cardinality(colons) # 1 THEN NaT
        ELSE LET k == CHOOSE i \in colons : TRUE
                 h == FieldValue(SubSeq(s, 1, k - 1))
                 m == FieldValue(SubSeq(s, k + 1, Len(s)))
             IN  IF h < 0 \/ h > 23 \/ m < 0 \/ m > 59 THEN NaT
                 ELSE 60 * h + m

Abs(x) == IF x < 0 THEN -x ELSE x

\* round(num / den, 0) for num >= 0, den > 0: to the nearest integer, a tie to
\* the even one (Python's round).
RoundDiv(num, den) ==
    LET q == num \div den
        r == num % den
    IN  IF 2 * r < den THEN q
        ELSE IF 2 * r > den THEN q + 1
        ELSE IF q % 2 = 0 THEN q ELSE q + 1

\* ------------------------------------------------------- agent functions

\* ---- DataFrame helpers (pandas)

ToSet(s) == {s[i] : i \in 1..Len(s)}

ColumnPos(frame, c) == CHOOSE k \in 1..Len(frame.columns) : frame.columns[k] = c

\* frame[c] at row position i
Cell(frame, i, c) == frame.data[i][ColumnPos(frame, c)]

\* frame[c] = values: replaces the column when it exists, appends it otherwise.
SetColumn(frame, c, values) ==
    IF c \in ToSet(frame.columns)
    THEN [frame EXCEPT !.data =
             [i \in DOMAIN frame.data |->
                 [frame.data[i] EXCEPT ![ColumnPos(frame, c)] = values[i]]]]
    ELSE [frame EXCEPT !.columns = Append(frame.columns, c),
                       !.data = [i \in DOMAIN frame.data |->
                                    Append(frame.data[i], values[i])]]

\* frame[cols]: a new frame of the chosen columns, the index kept.
SelectColumns(frame, cols) ==
    [columns |-> cols,
     index   |-> frame.index,
     data    |-> [i \in DOMAIN frame.data |->
                    [k \in DOMAIN cols |-> Cell(frame, i, cols[k])]]]

\* The row positions from i on, in order, whose cell in column c is not NaT.
RECURSIVE NotNaPositions(_, _, _)
NotNaPositions(frame, c, i) ==
    IF i > Len(frame.data) THEN <<>>
    ELSE IF Cell(frame, i, c) # NaT
         THEN <<i>> \o NotNaPositions(frame, c, i + 1)
         ELSE NotNaPositions(frame, c, i + 1)

\* Mutant of DropNa: the rows with NaT are kept.
DropNaKeepsAll(frame, c) == frame

\* frame.dropna(subset=[c]): a new frame without the rows whose c is NaT; the
\* rows left keep their index labels.
DropNa(frame, c) ==
    LET kept == NotNaPositions(frame, c, 1)
    IN  [columns |-> frame.columns,
         index   |-> [k \in DOMAIN kept |-> frame.index[kept[k]]],
         data    |-> [k \in DOMAIN kept |-> frame.data[kept[k]]]]

\* Mutant of IdxMin: the index label of the last row holding the minimum.
IdxMinLast(frame, c) ==
    LET n == Len(frame.data)
        p == CHOOSE i \in 1..n :
                 /\ \A j \in 1..n : Cell(frame, i, c) <= Cell(frame, j, c)
                 /\ \A j \in (i + 1)..n : Cell(frame, j, c) > Cell(frame, i, c)
    IN  frame.index[p]

\* frame[c].idxmin() on a frame with at least one row: the index label of the
\* first row holding the minimum.
IdxMin(frame, c) ==
    LET n == Len(frame.data)
        p == CHOOSE i \in 1..n :
                 /\ \A j \in 1..n : Cell(frame, i, c) <= Cell(frame, j, c)
                 /\ \A j \in 1..(i - 1) : Cell(frame, j, c) > Cell(frame, i, c)
    IN  frame.index[p]

\* frame.loc[label] for a label the index holds once: the position of that row.
Loc(frame, label) == CHOOSE i \in 1..Len(frame.index) : frame.index[i] = label

\* pd.read_csv(file): the header row becomes the columns, the index is 0..n-1.
\* The cells are taken as already typed (a lux cell is a number).
read_csv(file) ==
    [columns |-> file.header,
     index   |-> [i \in DOMAIN file.rows |-> i - 1],
     data    |-> file.rows]

\* ---- column names: str.strip() and str.lower() on the header texts in use

StripText(c) ==
    CASE c = " Time " -> "Time"
      [] c = " LUX"   -> "LUX"
      [] OTHER        -> c

LowerText(c) ==
    CASE c = "Time"   -> "time"
      [] c = "LUX"    -> "lux"
      [] c = "Lumens" -> "lumens"
      [] OTHER        -> c

\* load_daylight_data(df): [exc, frame]; exc is "KeyError" when a column is absent.
load_daylight_data(frame) ==
    LET renamed == [frame EXCEPT !.columns =
                       [k \in DOMAIN frame.columns |->
                           LowerText(StripText(frame.columns[k]))]]
    IN  IF {"time", "lux"} \subseteq ToSet(renamed.columns)
        THEN [exc |-> "", frame |-> SelectColumns(renamed, <<"time", "lux">>)]
        ELSE [exc |-> "KeyError", frame |-> renamed]

\* Mutant of evaluate_brightness: the upper threshold is not strict.
evaluate_brightness_ge(lux) ==
    IF lux >= 500 THEN 10
    ELSE IF lux > 300 THEN 40
    ELSE 80

\* Mutant of evaluate_brightness: the result depends on state that outlives a
\* script run (here the number of runs so far).
evaluate_brightness_stateful(lux) ==
    IF lux > 500 THEN (IF run > 1 THEN 40 ELSE 10)
    ELSE IF lux > 300 THEN 40
    ELSE 80

evaluate_brightness(lux) ==
    IF lux > 500 THEN 10
    ELSE IF lux > 300 THEN 40
    ELSE 80

DefaultHours == 1
DefaultWatt == 40
DefaultRate == 15      \* rate=0.15, in hundredths

\* round((brightness_percent / 100) * watt * hours / 1000, 4), in units of 0.0001
calculate_energy_kwh(brightness_percent, hours, watt) ==
    RoundDiv(brightness_percent * watt * hours * 10000, 100 * 1000)

\* Mutant of calculate_cost: rounded to three places instead of four.
calculate_cost_round3(kwh, rate) == 10 * RoundDiv(kwh * rate, 1000)

\* round(kwh * rate, 4), kwh and the result in units of 0.0001, rate in hundredths
calculate_cost(kwh, rate) == RoundDiv(kwh * rate, 100)

EnergyOf(brightness_percent) ==
    calculate_energy_kwh(brightness_percent, DefaultHours, DefaultWatt)

CostOf(kwh) == calculate_cost(kwh, DefaultRate)

\* get_nearest_time_brightness(df) called at time t (minutes of the day).
\* caller is the caller's frame after the call: line 58 assigns the column
\* parsed_time on the frame object it was handed, before line 59 rebinds the
\* local name to the filtered copy that receives the other two columns.
\* Any exception inside the try block yields (None, None).
get_nearest_time_brightness(frame, t) ==
    LET caller == SetColumn(frame, "parsed_time",
                      [i \in DOMAIN frame.data |-> ParseTime(Cell(frame, i, "time"))])
        local  == DropNa(caller, "parsed_time")
        Combine(p) == p                        \* datetime.combine(now.date(), p)
        Diff(d)    == Abs(t - d) * 60          \* abs((now - d).total_seconds())
        raisesOnCombine ==                     \* combine(date, NaT): TypeError
            \E i \in DOMAIN local.data : Cell(local, i, "parsed_time") = NaT
        withObj  == SetColumn(local, "datetime_obj",
                      [i \in DOMAIN local.data |-> Combine(Cell(local, i, "parsed_time"))])
        withDiff == SetColumn(withObj, "time_diff",
                      [i \in DOMAIN withObj.data |-> Diff(Cell(withObj, i, "datetime_obj"))])
    IN  IF raisesOnCombine \/ Len(local.data) = 0  \* idxmin of nothing: ValueError
        THEN [time_match |-> None, brightness_match |-> None, caller |-> caller]
        ELSE LET nearest_row == Loc(withDiff, IdxMin(withDiff, "time_diff"))
             IN  [time_match       |-> Some(Cell(withDiff, nearest_row, "time")),
                  brightness_match |-> Some(Cell(withDiff, nearest_row, "brightness")),
                  caller           |-> caller]

\* ---- JSON values and the Python operations call_groq_scheduler applies to them

JNull == [t |-> "null"]
JNum(n) == [t |-> "number", n |-> n]
JBool(b) == [t |-> "boolean", b |-> b]
JStr(s) == [t |-> "string", s |-> s]
JList(l) == [t |-> "array", items |-> l]
JObj(f) == [t |-> "object", fields |-> f]

\* sub in s, for the texts in use
ContainsText(s, sub) ==
    \/ s = sub
    \/ s = "no choices" /\ sub = "choices"

\* s[0], for the texts in use
FirstCharOf(s) ==
    CASE s = "choices" -> "c"
      [] s = "no choices" -> "n"
      [] s = "error" -> "e"
      [] OTHER -> "?"

\* key in x: "yes", "no", or the exception raised
PyIn(key, x) ==
    CASE x.t = "object" -> IF key \in DOMAIN x.fields THEN "yes" ELSE "no"
      [] x.t = "array"  ->
            IF \E i \in DOMAIN x.items : x.items[i].t = "string" /\ x.items[i].s = key
            THEN "yes" ELSE "no"
      [] x.t = "string" -> IF ContainsText(x.s, key) THEN "yes" ELSE "no"
      [] OTHER          -> "TypeError"    \* argument of type ... is not iterable

\* x[key] for a text key: [exc, val]
GetKey(x, key) ==
    CASE x.t = "object" ->
            IF key \in DOMAIN x.fields THEN [exc |-> "", val |-> x.fields[key]]
            ELSE [exc |-> "KeyError", val |-> JNull]
      [] OTHER -> [exc |-> "TypeError", val |-> JNull]

\* x[0]: [exc, val]
GetFirst(x) ==
    CASE x.t = "array" ->
            IF Len(x.items) > 0 THEN [exc |-> "", val |-> x.items[1]]
            ELSE [exc |-> "IndexError", val |-> JNull]
      [] x.t = "string" ->
            IF x.s # "" THEN [exc |-> "", val |-> JStr(FirstCharOf(x.s))]
            ELSE [exc |-> "IndexError", val |-> JNull]
      [] x.t = "object" -> [exc |-> "KeyError", val |-> JNull]
      [] OTHER -> [exc |-> "TypeError", val |-> JNull]

\* response.json(): [exc, val]
ResponseJson(body) ==
    IF body.json THEN [exc |-> "", val |-> body.value]
    ELSE [exc |-> "JSONDecodeError", val |-> JNull]

WarningText == "GROQ did not return a valid response."

\* f"GROQ request failed: {e}"
FailedText(e) ==
    CASE e = "JSONDecodeError" -> "GROQ request failed: JSONDecodeError"
      [] e = "TypeError"       -> "GROQ request failed: TypeError"
      [] e = "KeyError"        -> "GROQ request failed: KeyError"
      [] e = "IndexError"      -> "GROQ request failed: IndexError"

\* The prompt lines, one per row: (time, lux, brightness).
BuildPrompt(frame) ==
    [i \in DOMAIN frame.data |->
        <<Cell(frame, i, "time"), Cell(frame, i, "lux"), Cell(frame, i, "brightness")>>]

\* Mutant of ClassifyResponse: the test 'choices' in output is missing, the
\* path is always followed.
ClassifyResponseUnguarded(body) ==
    LET output  == ResponseJson(body)
        choices == GetKey(output.val, "choices")
        first   == GetFirst(choices.val)
        message == GetKey(first.val, "message")
        content == GetKey(message.val, "content")
    IN  IF output.exc # "" THEN JStr(FailedText(output.exc))
        ELSE IF choices.exc # "" THEN JStr(FailedText(choices.exc))
        ELSE IF first.exc # "" THEN JStr(FailedText(first.exc))
        ELSE IF message.exc # "" THEN JStr(FailedText(message.exc))
        ELSE IF content.exc # "" THEN JStr(FailedText(content.exc))
        ELSE content.val

\* Lines 49-53: what the try block makes of a received response.
ClassifyResponse(body) ==
    LET output  == ResponseJson(body)
        has     == PyIn("choices", output.val)
        choices == GetKey(output.val, "choices")
        first   == GetFirst(choices.val)
        message == GetKey(first.val, "message")
        content == GetKey(message.val, "content")
    IN  IF output.exc # "" THEN JStr(FailedText(output.exc))
        ELSE IF has = "TypeError" THEN JStr(FailedText("TypeError"))
        ELSE IF has = "no" THEN JStr(WarningText)
        ELSE IF choices.exc # "" THEN JStr(FailedText(choices.exc))
        ELSE IF first.exc # "" THEN JStr(FailedText(first.exc))
        ELSE IF message.exc # "" THEN JStr(FailedText(message.exc))
        ELSE IF content.exc # "" THEN JStr(FailedText(content.exc))
        ELSE content.val

\* call_groq_scheduler(dataframe, groq_api_key) when requests.post ends with
\* outcome: None when it raises (no response), Some(body) when a response
\* arrives.  requests.post stands before the try block, so its exception
\* leaves the function.  [request, exc, value]
call_groq_scheduler(dataframe, key, outcome) ==
    LET request == [key |-> key, prompt |-> BuildPrompt(dataframe)]
    IN  IF outcome = None
        THEN [request |-> request, exc |-> "ConnectionError", value |-> JNull]
        ELSE [request |-> request, exc |-> "",
              value |-> ClassifyResponse(outcome[1])]

\* ------------------------------------------------------------------ inputs

T0900 == <<"0", "9", ":", "0", "0">>
T0910 == <<"9", ":", "1", "0">>
T1300 == <<"1", "3", ":", "0", "0">>
T0001 == <<"0", "0", ":", "0", "1">>
T2500 == <<"2", "5", ":", "0", "0">>
NaNCell == <<>>

\* The sequences over S of length at most n.
SeqsUpTo(S, n) == UNION {[1..k -> S] : k \in 0..n}

\* A CSV file holding the readings (time, lux) under one of three headers: the
\* plain one, one that needs strip/lower and lists lux first, one without lux.
CsvFile(kind, readings) ==
    CASE kind = "plain" -> [header |-> <<"time", "lux">>, rows |-> readings]
      [] kind = "messy" ->
            [header |-> <<" LUX", " Time ">>,
             rows   |-> [i \in DOMAIN readings |-> <<readings[i][2], readings[i][1]>>]]
      [] kind = "nolux" -> [header |-> <<"time", "Lumens">>, rows |-> readings]

HeaderKinds == {"plain", "messy", "nolux"}
ScriptTimes == {T0900, T2500}
ScriptLux == {300, 501}
ScriptFiles ==
    {CsvFile(k, r) : k \in HeaderKinds, r \in SeqsUpTo(ScriptTimes \X ScriptLux, MaxRows)}

KeyValues == {"", "gsk_key"}
NowValues == {545, 1439}          \* 09:05 and 23:59
ManualInputs == {0, 50}           \* st.number_input: 0 means no override

GoodChoice == JObj("message" :> JObj("content" :> JStr("09:00: 80% - low daylight")))

Bodies ==
    {[json |-> FALSE, value |-> JNull]} \cup
    {[json |-> TRUE, value |-> j] : j \in
        {JNull, JNum(5), JBool(TRUE), JStr("choices"), JStr("error"),
         JList(<<>>), JList(<<JStr("choices")>>),
         JObj("error" :> JStr("error")),
         JObj("choices" :> JList(<<>>)),
         JObj("choices" :> JList(<<GoodChoice>>)),
         JObj("choices" :> JList(<<JObj("message" :> JObj("content" :> JNull))>>)),
         JObj("choices" :> JList(<<JObj("message" :> JObj("role" :> JStr("error")))>>)),
         JObj("choices" :> JList(<<JObj("message" :> JStr("error"))>>)),
         JObj("choices" :> JList(<<JStr("error")>>)),
         JObj("choices" :> JStr("error")),
         JObj("choices" :> JNull),
         JObj("choices" :> JObj("error" :> JStr("error")))}}

\* What requests.post can end with: an exception (None) or a response.
HttpOutcomes == {None} \cup {Some(b) : b \in Bodies}

\* ------------------------------------------------------------------ main()

AddBrightness(frame) ==
    SetColumn(frame, "brightness",
        [i \in DOMAIN frame.data |-> evaluate_brightness(Cell(frame, i, "lux"))])

AddEnergy(frame) ==
    SetColumn(frame, "energy_kwh",
        [i \in DOMAIN frame.data |-> EnergyOf(Cell(frame, i, "brightness"))])

AddCost(frame) ==
    SetColumn(frame, "cost",
        [i \in DOMAIN frame.data |-> CostOf(Cell(frame, i, "energy_kwh"))])

RECURSIVE SumColumn(_, _, _)
SumColumn(frame, c, i) ==
    IF i > Len(frame.data) THEN 0
    ELSE Cell(frame, i, c) + SumColumn(frame, c, i + 1)

\* Mutant of InputsMissing: only the file is tested.
InputsMissingFileOnly(file, key) == file = None

\* not uploaded_file or not groq_api_key
InputsMissing(file, key) == file = None \/ key = ""

FreshRun ==
    /\ df = EmptyFrame
    /\ now = NaT
    /\ time_match = None
    /\ brightness_match = None
    /\ status = ""
    /\ metrics = None
    /\ overview = None
    /\ response = None
    /\ schedule = None
    /\ raised = ""
    /\ httpRequests = <<>>
    /\ steps = {}

Init ==
    /\ pc = "start"
    /\ run = 1
    /\ uploaded_file \in {None} \cup {Some(f) : f \in ScriptFiles}
    /\ groq_api_key \in KeyValues
    /\ enrichedLog = <<>>
    /\ FreshRun

\* line 92-103
CheckInputs ==
    /\ pc = "start"
    /\ pc' = IF InputsMissing(uploaded_file, groq_api_key) THEN "welcome" ELSE "read_csv"
    /\ UNCHANGED <<run, uploaded_file, groq_api_key, df, now, time_match,
                   brightness_match, status, metrics, overview, response,
                   schedule, raised, httpRequests, steps, enrichedLog>>

\* line 106
ReadCsv ==
    /\ pc = "read_csv"
    /\ df' = read_csv(uploaded_file[1])
    /\ steps' = steps \cup {"read_csv"}
    /\ pc' = "load"
    /\ UNCHANGED <<run, uploaded_file, groq_api_key, now, time_match,
                   brightness_match, status, metrics, overview, response,
                   schedule, raised, httpRequests, enrichedLog>>

\* line 107
Load ==
    /\ pc = "load"
    /\ LET r == load_daylight_data(df)
       IN  /\ df' = r.frame
           /\ raised' = r.exc
           /\ pc' = IF r.exc = "" THEN "brightness" ELSE "crashed"
    /\ UNCHANGED <<run, uploaded_file, groq_api_key, now, time_match,
                   brightness_match, status, metrics, overview, response,
                   schedule, httpRequests, steps, enrichedLog>>

\* line 108
Brightness ==
    /\ pc = "brightness"
    /\ df' = AddBrightness(df)
    /\ steps' = steps \cup {"derive"}
    /\ pc' = "energy"
    /\ UNCHANGED <<run, uploaded_file, groq_api_key, now, time_match,
                   brightness_match, status, metrics, overview, response,
                   schedule, raised, httpRequests, enrichedLog>>

\* line 109
Energy ==
    /\ pc = "energy"
    /\ df' = AddEnergy(df)
    /\ pc' = "cost"
    /\ UNCHANGED <<run, uploaded_file, groq_api_key, now, time_match,
                   brightness_match, status, metrics, overview, response,
                   schedule, raised, httpRequests, steps, enrichedLog>>

\* line 110; enrichedLog records what the enrichment made of which input
Cost ==
    /\ pc = "cost"
    /\ df' = AddCost(df)
    /\ enrichedLog' = Append(enrichedLog, [input |-> uploaded_file[1], output |-> df'])
    /\ pc' = "match"
    /\ UNCHANGED <<run, uploaded_file, groq_api_key, now, time_match,
                   brightness_match, status, metrics, overview, response,
                   schedule, raised, httpRequests, steps>>

\* line 112: df is the frame object the matcher was handed
Match ==
    /\ pc = "match"
    /\ \E t \in NowValues :
         LET r == get_nearest_time_brightness(df, t)
         IN  /\ now' = t
             /\ time_match' = r.time_match
             /\ brightness_match' = r.brightness_match
             /\ df' = r.caller
    /\ steps' = steps \cup {"match"}
    /\ pc' = "status"
    /\ UNCHANGED <<run, uploaded_file, groq_api_key, status, metrics, overview,
                   response, schedule, raised, httpRequests, enrichedLog>>

\* lines 114-125: a time text is truthy when it is not empty
Status ==
    /\ pc = "status"
    /\ \E manual_input \in ManualInputs :
         status' = IF manual_input # 0 THEN "manual"
                   ELSE IF time_match # None /\ time_match[1] # <<>> THEN "auto"
                   ELSE "error"
    /\ pc' = "dashboard"
    /\ UNCHANGED <<run, uploaded_file, groq_api_key, df, now, time_match,
                   brightness_match, metrics, overview, response, schedule,
                   raised, httpRequests, steps, enrichedLog>>

\* lines 127-133: the three metrics and the data overview
Dashboard ==
    /\ pc = "dashboard"
    /\ metrics' = Some([adjustments |-> Len(df.data),
                        energy      |-> SumColumn(df, "energy_kwh", 1),
                        cost        |-> SumColumn(df, "cost", 1)])
    /\ overview' = Some(df)
    /\ pc' = "narrate"
    /\ UNCHANGED <<run, uploaded_file, groq_api_key, df, now, time_match,
                   brightness_match, status, response, schedule, raised,
                   httpRequests, steps, enrichedLog>>

\* line 137
Narrate ==
    /\ pc = "narrate"
    /\ \E outcome \in HttpOutcomes :
         LET r == call_groq_scheduler(df, groq_api_key, outcome)
         IN  /\ httpRequests' = Append(httpRequests, r.request)
             /\ response' = outcome
             /\ raised' = r.exc
             /\ schedule' = IF r.exc = "" THEN Some(r.value) ELSE None
             /\ pc' = IF r.exc = "" THEN "format" ELSE "crashed"
    /\ steps' = steps \cup {"http"}
    /\ UNCHANGED <<run, uploaded_file, groq_api_key, df, now, time_match,
                   brightness_match, status, metrics, overview, enrichedLog>>

\* lines 140-178: format_schedule(schedule) starts with text.split, which only
\* a str has; the HTML it builds is not modelled.
Format ==
    /\ pc = "format"
    /\ raised' = IF schedule[1].t = "string" THEN "" ELSE "AttributeError"
    /\ pc' = IF schedule[1].t = "string" THEN "done" ELSE "crashed"
    /\ UNCHANGED <<run, uploaded_file, groq_api_key, df, now, time_match,
                   brightness_match, status, metrics, overview, response,
                   schedule, httpRequests, steps, enrichedLog>>

\* Streamlit runs main() again on the next interaction: every local starts
\* afresh; the uploaded file stays, a first file may be uploaded, the key may
\* be edited.
Rerun ==
    /\ pc \in {"welcome", "done", "crashed"}
    /\ run < MaxRuns
    /\ run' = run + 1
    /\ pc' = "start"
    /\ uploaded_file' \in IF uploaded_file = None
                          THEN {Some(f) : f \in ScriptFiles}
                          ELSE {uploaded_file}
    /\ groq_api_key' \in KeyValues
    /\ df' = EmptyFrame
    /\ now' = NaT
    /\ time_match' = None
    /\ brightness_match' = None
    /\ status' = ""
    /\ metrics' = None
    /\ overview' = None
    /\ response' = None
    /\ schedule' = None
    /\ raised' = ""
    /\ httpRequests' = <<>>
    /\ steps' = {}
    /\ UNCHANGED enrichedLog

Next ==
    \/ CheckInputs
    \/ ReadCsv
    \/ Load
    \/ Brightness
    \/ Energy
    \/ Cost
    \/ Match
    \/ Status
    \/ Dashboard
    \/ Narrate
    \/ Format
    \/ Rerun

Spec == Init /\ [][Next]_vars

\* ------------------------------------------- the functions on their own

\* read_csv, load_daylight_data and the three derived columns (lines 106-110)
\* on a file with the columns time and lux.
EnrichedFrame(file) ==
    AddCost(AddEnergy(AddBrightness(load_daylight_data(read_csv(file)).frame)))

MatchTimes == {T0900, T0910, T1300, T0001, T2500, NaNCell}
MatchLux == {300, 501}
MatcherFiles ==
    {CsvFile("plain", r) : r \in SeqsUpTo(MatchTimes \X MatchLux, MaxMatchRows)}

\* main() about to call the matcher (line 112), for every table of MatcherFiles.
InitMatcher ==
    /\ pc = "match"
    /\ run = 1
    /\ uploaded_file \in {Some(f) : f \in MatcherFiles}
    /\ groq_api_key = "gsk_key"
    /\ df = EnrichedFrame(uploaded_file[1])
    /\ enrichedLog = <<[input |-> uploaded_file[1], output |-> df]>>
    /\ now = NaT
    /\ time_match = None
    /\ brightness_match = None
    /\ status = ""
    /\ metrics = None
    /\ overview = None
    /\ response = None
    /\ schedule = None
    /\ raised = ""
    /\ httpRequests = <<>>
    /\ steps = {"read_csv", "derive"}

NextMatcher == Match

SpecMatcher == InitMatcher /\ [][NextMatcher]_vars

\* main() about to derive brightness, energy and cost (lines 108-110) of a
\* one-row table, for every lux of -LuxSpan..LuxSpan.
InitEval ==
    /\ pc = "brightness"
    /\ run = 1
    /\ uploaded_file \in {Some(CsvFile("plain", <<<<T0900, lux>>>>)) :
                              lux \in (-LuxSpan)..LuxSpan}
    /\ groq_api_key = "gsk_key"
    /\ df = load_daylight_data(read_csv(uploaded_file[1])).frame
    /\ enrichedLog = <<>>
    /\ now = NaT
    /\ time_match = None
    /\ brightness_match = None
    /\ status = ""
    /\ metrics = None
    /\ overview = None
    /\ response = None
    /\ schedule = None
    /\ raised = ""
    /\ httpRequests = <<>>
    /\ steps = {"read_csv"}

NextEval ==
    \/ Brightness
    \/ Energy
    \/ Cost

SpecEval == InitEval /\ [][NextEval]_vars

\* ------------------------------------------------------------------ claims

HasColumn(frame, c) == c \in ToSet(frame.columns)

\* C1: every row's brightness is 10 when its lux is above 500, 40 when its lux
\* is above 300 and at most 500, 80 when its lux is at most 300 (zero and
\* negative values included), and never anything else.
C1_BrightnessBuckets ==
    HasColumn(df, "brightness") =>
        \A i \in DOMAIN df.data :
            LET lux == Cell(df, i, "lux")
                b   == Cell(df, i, "brightness")
            IN  /\ b \in {10, 40, 80}
                /\ lux > 500 => b = 10
                /\ (300 < lux /\ lux <= 500) => b = 40
                /\ lux <= 300 => b = 80

\* C1 witness: the boundary value 500 has been mapped to 40.
C1_Witness ==
    /\ pc = "energy"
    /\ Len(df.data) = 1
    /\ Cell(df, 1, "lux") = 500
    /\ Cell(df, 1, "brightness") = 40

IsFailedText(v) ==
    v.t = "string" /\ v.s \in {FailedText(e) :
                                  e \in {"JSONDecodeError", "TypeError", "KeyError", "IndexError"}}

\* C2 (as claimed): once call_groq_scheduler has been called, it has not raised
\* and has returned a string, whatever the outcome of the HTTP call.
C2_NeverRaisesAlwaysString ==
    "http" \in steps =>
        /\ raised # "ConnectionError"
        /\ schedule # None
        /\ schedule[1].t = "string"

\* The rows of the matcher's table whose time parses, and each one's distance
\* from now in seconds.
ParsableRows(frame) ==
    {i \in DOMAIN frame.data : ParseTime(Cell(frame, i, "time")) # NaT}

SecondsFromNow(frame, i) == Abs(now - ParseTime(Cell(frame, i, "time"))) * 60

\* C3: when at least one row parses, the matcher returns the time and the
\* brightness of the first row, in table order, at the least plain distance
\* |now - row time| among the rows that parse.
C3_NearestFirst ==
    (pc = "status" /\ ParsableRows(df) # {}) =>
        \E i \in ParsableRows(df) :
            /\ \A j \in ParsableRows(df) : SecondsFromNow(df, i) <= SecondsFromNow(df, j)
            /\ \A j \in ParsableRows(df) :
                   j < i => SecondsFromNow(df, j) > SecondsFromNow(df, i)
            /\ time_match = Some(Cell(df, i, "time"))
            /\ brightness_match = Some(Cell(df, i, "brightness"))

\* C3 witness: at 09:05 the rows 9:10 and 09:00, in that order, are both 300 s
\* away and the first one is returned.
C3_Witness ==
    /\ pc = "status"
    /\ now = 545
    /\ Len(df.data) >= 2
    /\ Cell(df, 1, "time") = T0910
    /\ Cell(df, 2, "time") = T0900
    /\ time_match = Some(T0910)

TimeParses(reading) == ParseTime(reading[1]) # NaT

\* C4: the matcher's result is its result on the table without the rows whose
\* time does not parse; a row that does not parse is never returned; when no
\* row parses the result is (None, None) and nothing is raised.
C4_UnparsableIgnored ==
    pc = "status" =>
        LET file  == uploaded_file[1]
            clean == EnrichedFrame(CsvFile("plain", SelectSeq(file.rows, TimeParses)))
            r     == get_nearest_time_brightness(clean, now)
        IN  /\ time_match = r.time_match
            /\ brightness_match = r.brightness_match
            /\ time_match # None => ParseTime(time_match[1]) # NaT
            /\ (\A i \in DOMAIN file.rows : ~TimeParses(file.rows[i])) =>
                   (time_match = None /\ brightness_match = None)
            /\ raised = ""

\* C4 witness: the row 25:00 stands first, a row that parses is returned.
C4_Witness ==
    /\ pc = "status"
    /\ Len(df.data) >= 2
    /\ Cell(df, 1, "time") = T2500
    /\ time_match # None

\* C5: while the file or the key is missing, main has read no CSV, derived
\* nothing, not called the matcher and sent no request, and it ends in the
\* welcome state; each of those steps happens only with both inputs present.
C5_ShortCircuit ==
    /\ (uploaded_file = None \/ groq_api_key = "") =>
           /\ pc \in {"start", "welcome"}
           /\ steps = {}
           /\ df = EmptyFrame
           /\ httpRequests = <<>>
           /\ time_match = None /\ brightness_match = None
    /\ pc = "welcome" => (uploaded_file = None \/ groq_api_key = "")
    /\ (steps # {} \/ httpRequests # <<>>) =>
           (uploaded_file # None /\ groq_api_key # "")

\* C5 witness: a file is uploaded, the key is empty, the run ended in welcome.
C5_Witness ==
    /\ pc = "welcome"
    /\ uploaded_file # None
    /\ groq_api_key = ""

\* C6: with the defaults, each row's (brightness, kWh, cost) is (10, 0.004,
\* 0.0006), (40, 0.016, 0.0024) or (80, 0.032, 0.0048): kWh is exactly
\* brightness * 0.0004, cost exactly kWh * 0.15, both non-negative, and the
\* rounding to four places drops nothing.
C6_EnergyCostExact ==
    HasColumn(df, "cost") =>
        \A i \in DOMAIN df.data :
            LET b == Cell(df, i, "brightness")
                k == Cell(df, i, "energy_kwh")
                c == Cell(df, i, "cost")
            IN  /\ <<b, k, c>> \in {<<10, 40, 6>>, <<40, 160, 24>>, <<80, 320, 48>>}
                /\ k = 4 * b
                /\ 100000 * k = b * DefaultWatt * DefaultHours * 10000
                /\ 100 * c = DefaultRate * k
                /\ k >= 0 /\ c >= 0

\* C6 witness: a row at 400 lux has been given brightness 40, 0.016 kWh and
\* a cost of 0.0024.
C6_Witness ==
    /\ HasColumn(df, "cost")
    /\ Len(df.data) = 1
    /\ Cell(df, 1, "lux") = 400
    /\ Cell(df, 1, "brightness") = 40
    /\ Cell(df, 1, "energy_kwh") = 160
    /\ Cell(df, 1, "cost") = 24

\* The failure messages the narrator call of this run has produced.
FailureMessages ==
    IF schedule # None /\ (IsFailedText(schedule[1]) \/ schedule[1] = JStr(WarningText))
    THEN 1 ELSE 0

\* The narrator call of this run failed: no response, or a response that gave
\* no narrated text.
CallFailed ==
    /\ "http" \in steps
    /\ \/ response = None
       \/ FailureMessages = 1

\* C7 (as claimed): a run sends at most one request, and a failed call yields
\* exactly one failure message.
C7_NoRetryOneFailureMessage ==
    /\ Len(httpRequests) <= 1
    /\ CallFailed => FailureMessages = 1

\* Part of C7 that the code keeps: a run sends at most one request, and exactly
\* one once the narrator has been called.
AtMostOneRequest ==
    /\ Len(httpRequests) <= 1
    /\ "http" \in steps <=> Len(httpRequests) = 1

\* C8: runs on identical input produce identical enriched tables, each with
\* the input's rows in the input's order, and rows with the same lux carry the
\* same brightness, energy and cost, whatever ran before.
C8_Deterministic ==
    /\ \A i, j \in DOMAIN enrichedLog :
           enrichedLog[i].input = enrichedLog[j].input =>
               enrichedLog[i].output = enrichedLog[j].output
    /\ \A e \in DOMAIN enrichedLog :
           LET out == enrichedLog[e].output
           IN  /\ out.columns = <<"time", "lux", "brightness", "energy_kwh", "cost">>
               /\ SelectColumns(out, <<"time", "lux">>) =
                      load_daylight_data(read_csv(enrichedLog[e].input)).frame
               /\ \A a, b \in DOMAIN out.data :
                      Cell(out, a, "lux") = Cell(out, b, "lux") =>
                          /\ Cell(out, a, "brightness") = Cell(out, b, "brightness")
                          /\ Cell(out, a, "energy_kwh") = Cell(out, b, "energy_kwh")
                          /\ Cell(out, a, "cost") = Cell(out, b, "cost")

\* C8 witness: a second run has enriched the same two-row file, with a row
\* above 500 lux, after the first run went as far as the narrator.
C8_Witness ==
    /\ Len(enrichedLog) = 2
    /\ enrichedLog[1].input = enrichedLog[2].input
    /\ Len(enrichedLog[2].output.data) = 2
    /\ Cell(enrichedLog[2].output, 1, "lux") = 501
    /\ "http" \in steps

\* The path choices[0].message.content exists in a JSON value.
ContentReachable(v) ==
    /\ v.t = "object"
    /\ "choices" \in DOMAIN v.fields
    /\ v.fields["choices"].t = "array"
    /\ Len(v.fields["choices"].items) > 0
    /\ v.fields["choices"].items[1].t = "object"
    /\ "message" \in DOMAIN v.fields["choices"].items[1].fields
    /\ v.fields["choices"].items[1].fields["message"].t = "object"
    /\ "content" \in DOMAIN v.fields["choices"].items[1].fields["message"].fields

ContentOf(v) == v.fields["choices"].items[1].fields["message"].fields["content"]

HasKeyChoices(v) == v.t = "object" /\ "choices" \in DOMAIN v.fields

LacksChoices(v) ==
    \/ v.t = "object" /\ "choices" \notin DOMAIN v.fields
    \/ v.t = "array" /\ \A i \in DOMAIN v.items : v.items[i] # JStr("choices")
    \/ v.t = "string" /\ v.s \notin {"choices", "no choices"}

C10_MatcherLeavesTableAlone ==
    "match" \in steps =>
        /\ df = enrichedLog[Len(enrichedLog)].output
        /\ overview # None => overview[1] = enrichedLog[Len(enrichedLog)].output
====
